---- MODULE Spec2Model ----
(***************************************************************************)
(* Variational weight layers of aboleth: distributions.py (Normal,         *)
(* Gaussian, the factories norm_prior / norm_posterior / gaus_posterior,   *)
(* kl_qp) and layers.py (SampleLayer, DenseVariational, EmbedVariational). *)
(*                                                                         *)
(* Tensors are modelled by what the layer logic looks at: their shapes.    *)
(* A distribution object is a record holding its class, the shape of its   *)
(* mean, the factory that made it, the seeds its initial values were drawn *)
(* with and an object identity.  A KL value is kept symbolically as the    *)
(* rule that computed it together with the two distributions it was        *)
(* computed from, so two KL values are equal exactly when they come from   *)
(* identical parameters.                                                   *)
(***************************************************************************)
EXTENDS Integers, Sequences, FiniteSets, TLC

\* Bounds of the model
MaxDim == 2          \* input_dim and output_dim range over 1..MaxDim
MaxSamples == 2      \* n_samples ranges over 1..MaxSamples
MaxCalls == 2        \* forward evaluations of one layer
MaxCategories == 3   \* n_categories ranges over 1..MaxCategories
MaxSeed0 == 1        \* the seed source starts anywhere in 0..MaxSeed0
MaxVal == 2          \* entries of a weight matrix range over 0..MaxVal

VARIABLES
    layer,     \* the layer object: its attributes, the four slots included
    seed,      \* state of aboleth.random.seedgen: the next value it yields
    nid,       \* identity the next constructed distribution object gets
    last,      \* the last operation requested and its arguments
    start,     \* layer and seed as they were when the last operation began
    result,    \* how the last operation ended: error, KL, output, event log
    ncalls     \* forward evaluations made so far

vars == <<layer, seed, nid, last, start, result, ncalls>>

----------------------------------------------------------------------------
(* Distribution objects *)

\* Python None in a distribution slot
NoDist == [kind |-> "None", dim |-> <<>>, origin |-> "none", seeds |-> <<>>,
           id |-> 0]

\* class Normal: mean of shape dim (sigma, d derive from mu and var)
Normal(dim, origin, seeds, id) ==
    [kind |-> "Normal", dim |-> dim, origin |-> origin, seeds |-> seeds,
     id |-> id]

\* class Gaussian: mean of shape dim, Cholesky factor of shape (O, I, I)
Gaussian(dim, origin, seeds, id) ==
    [kind |-> "Gaussian", dim |-> dim, origin |-> origin, seeds |-> seeds,
     id |-> id]

\* truth value of an object in `if prior_W:`; neither class defines
\* __bool__ or __len__, so every instance is true and None is false
Truthy(d) == d.kind # "None"

----------------------------------------------------------------------------
(* The machine threaded through one operation *)

Ev(e, s, v) == [ev |-> e, slot |-> s, val |-> v]

Raise(m, e) == [m EXCEPT !.err = e]
Ok(m) == m.err = "none"
Emit(m, e, s, v) == [m EXCEPT !.log = Append(@, Ev(e, s, v))]

\* next(seedgen): yields the current value and advances the source
NextSeed(m, use) ==
    [m EXCEPT !.seed = @ + 1, !.log = Append(@, Ev("seed", use, m.seed))]

----------------------------------------------------------------------------
(* distributions.py: factories *)

norm_prior(m, dim) ==
    [m |-> [Emit(m, "factory", "norm_prior", m.nid) EXCEPT !.nid = @ + 1],
     d |-> Normal(dim, "norm_prior", <<>>, m.nid)]

norm_posterior(m, dim) ==
    LET m2 == NextSeed(NextSeed(m, "init.mu"), "init.var")
    IN [m |-> [Emit(m2, "factory", "norm_posterior", m.nid)
                  EXCEPT !.nid = @ + 1],
        d |-> Normal(dim, "norm_posterior", <<m.seed, m.seed + 1>>, m.nid)]

gaus_posterior(m, dim) ==
    IF Len(dim) # 2
    THEN [m |-> Raise(m, "ValueError: unpack"), d |-> NoDist]
    ELSE LET m2 == NextSeed(NextSeed(m, "init.L"), "init.mu")
         IN [m |-> [Emit(m2, "factory", "gaus_posterior", m.nid)
                       EXCEPT !.nid = @ + 1],
             d |-> Gaussian(dim, "gaus_posterior", <<m.seed, m.seed + 1>>,
                            m.nid)]

----------------------------------------------------------------------------
(* distributions.py: sample() and kl_qp *)

\* Normal.sample: one draw of noise of the shape of the mean
Normal_sample(m, dist) == Emit(NextSeed(m, "sample"), "sample", "Normal", dist.id)

\* Gaussian.sample: one draw of noise of the transformed shape
Gaussian_sample(m, dist) ==
    Emit(NextSeed(m, "sample"), "sample", "Gaussian", dist.id)

\* mutation: a rule registered for every pair of classes
KLRules_AllPairs == {"Normal", "Gaussian"} \X {"Normal", "Gaussian"}

\* the signatures registered with @dispatch
KLRules == {<<"Normal", "Normal">>, <<"Gaussian", "Normal">>,
            <<"Gaussian", "Gaussian">>}

\* kl_qp(q, p): multipledispatch picks the implementation registered for
\* the pair of classes, and raises NotImplementedError when there is none
kl_qp(q, p) ==
    IF <<q.kind, p.kind>> \in KLRules
    THEN [err |-> "none",
          val |-> [rule |-> <<q.kind, p.kind>>, q |-> q, p |-> p]]
    ELSE [err |-> "NotImplementedError",
          val |-> [rule |-> <<"none", "none">>, q |-> q, p |-> p]]

----------------------------------------------------------------------------
(* layers.py: helpers of DenseVariational *)

\* mutation: only the ranks are compared
_is_dim_RankOnly(shape, dims) == Len(shape) = Len(dims)

\* _is_dim(X, dims): the static shape of X equals the tuple dims
_is_dim(shape, dims) == shape = dims

\* _make_prior(prior_W, input_dim): input_dim is 0 for the default None
\* (both are false in `if input_dim`)
_make_prior(m, prior_W, input_dim) ==
    LET dim == IF input_dim # 0 THEN <<input_dim, m.layer.output_dim>>
                                ELSE <<m.layer.output_dim>>
    IN IF Truthy(prior_W)
       THEN IF _is_dim(prior_W.dim, dim)
            THEN [m |-> m, d |-> prior_W]
            ELSE [m |-> Raise(m, "AssertionError: Prior inconsistent dimension!"),
                  d |-> prior_W]
       ELSE norm_prior(m, dim)

\* mutation: full covariance asked for whenever full is set, bias included
_make_posterior_FullBias(m, post_W, input_dim) ==
    LET dim == IF input_dim # 0 THEN <<input_dim, m.layer.output_dim>>
                                ELSE <<m.layer.output_dim>>
        fullcov == m.layer.full
    IN IF Truthy(post_W)
       THEN IF _is_dim(post_W.dim, dim)
            THEN [m |-> m, d |-> post_W]
            ELSE [m |-> Raise(m, "AssertionError: Posterior inconsistent dimension!"),
                  d |-> post_W]
       ELSE IF fullcov THEN gaus_posterior(m, dim)
                       ELSE norm_posterior(m, dim)

\* _make_posterior(post_W, input_dim)
_make_posterior(m, post_W, input_dim) ==
    LET dim == IF input_dim # 0 THEN <<input_dim, m.layer.output_dim>>
                                ELSE <<m.layer.output_dim>>
        fullcov == m.layer.full /\ input_dim # 0
    IN IF Truthy(post_W)
       THEN IF _is_dim(post_W.dim, dim)
            THEN [m |-> m, d |-> post_W]
            ELSE [m |-> Raise(m, "AssertionError: Posterior inconsistent dimension!"),
                  d |-> post_W]
       ELSE IF fullcov THEN gaus_posterior(m, dim)
                       ELSE norm_posterior(m, dim)

\* dist(): the call expression of _sample_W.  Normal and Gaussian define
\* sample() but no __call__, so calling an instance raises TypeError
DistCall(m, dist) == Raise(m, "TypeError: object is not callable")

\* the one element of a singleton set; {f(v) : v \in {e}} evaluates e once
\* and hands its value to f
Only(S) == CHOOSE x \in S : TRUE

RECURSIVE DrawAll(_, _, _)
\* the list comprehension [dist() for _ in range(n_samples)]
DrawAll(m0, dist, k) ==
    Only({IF k = 0 \/ ~Ok(m) THEN m
          ELSE DrawAll(DistCall(m, dist), dist, k - 1) : m \in {m0}})

\* _sample_W(dist, n_samples): stack of n_samples draws
_sample_W(m, dist, n_samples) ==
    Only({IF Ok(r) THEN Emit(r, "stack", "none", n_samples) ELSE r :
          r \in {DrawAll(m, dist, n_samples)}})

\* self.<slot> = d
SetSlot(m, slot, d) ==
    Emit([m EXCEPT !.layer[slot] = d], "resolve", slot, d.id)

\* self.<slot> = self._make_...(self.<slot>, ...): the assignment happens
\* only when the call returns
Resolve(r0, slot) ==
    Only({IF Ok(r.m) THEN SetSlot(r.m, slot, r.d) ELSE r.m : r \in {r0}})

\* KL = kl_qp(q, p)  and  KL += kl_qp(q, p)
AddKL(m, q, p) ==
    Only({IF r.err # "none" THEN Raise(m, r.err)
          ELSE Emit([m EXCEPT !.KL = Append(@, r.val)], "kl", "none", q.id) :
          r \in {kl_qp(q, p)}})

----------------------------------------------------------------------------
(* layers.py: DenseVariational.build *)

\* the statements of build in order; X is the shape of the input, so
\* n_samples is X[1] and input_dim is X[3]
DenseStep(m, k, X) ==
    CASE k = 1 -> Resolve(_make_prior(m, m.layer.pW, X[3]), "pW")
      [] k = 2 -> Resolve(_make_posterior(m, m.layer.qW, X[3]), "qW")
      [] k = 3 -> AddKL(m, m.layer.qW, m.layer.pW)
      [] k = 4 -> _sample_W(m, m.layer.qW, X[1])
      [] k = 5 -> Emit([m EXCEPT !.net = "matmul"], "output", "matmul", 0)
      [] k = 6 -> \* `if self.use_bias is True or self.prior_b or ...`: when
                  \* use_bias is not True, self.prior_b is evaluated, and
                  \* __init__ stored the arguments as pb and qb: the
                  \* attribute prior_b does not exist
                  IF m.layer.use_bias THEN m
                  ELSE Raise(m, "AttributeError: prior_b")
      [] k = 7 -> Resolve(_make_prior(m, m.layer.pb, 0), "pb")
      [] k = 8 -> Resolve(_make_posterior(m, m.layer.qb, 0), "qb")
      [] k = 9 -> AddKL(m, m.layer.qb, m.layer.pb)
      [] k = 10 -> _sample_W(m, m.layer.qb, X[1])
      [] k = 11 -> Emit([m EXCEPT !.net = "matmul+bias"], "output", "bias", 0)
      [] OTHER -> [m EXCEPT !.ret = TRUE]

DenseLast == 12

RECURSIVE DenseRun(_, _, _)
\* statements k.. of build, until one raises or build returns
DenseRun(m0, k, X) ==
    Only({IF ~Ok(m) \/ k > DenseLast THEN m
          ELSE DenseRun(DenseStep(m, k, X), k + 1, X) : m \in {m0}})

DenseVariational_build(m, X) == DenseRun(m, 1, X)

----------------------------------------------------------------------------
(* layers.py: EmbedVariational.build *)

\* mutation: the column assertion comes after the weights are resolved
EmbedStep_LateCheck(m, k, X) ==
    CASE k = 1 -> Resolve(_make_prior(m, m.layer.pW, m.layer.n_categories),
                          "pW")
      [] k = 2 -> Resolve(_make_posterior(m, m.layer.qW,
                                          m.layer.n_categories), "qW")
      [] k = 3 -> IF X[3] # 1
                  THEN Raise(m, "AssertionError: X must be a *column* of indices!")
                  ELSE m
      [] k = 4 -> _sample_W(m, m.layer.qW, X[1])
      [] k = 5 -> Emit([m EXCEPT !.net = "gather"], "output", "gather", 0)
      [] k = 6 -> AddKL(m, m.layer.qW, m.layer.pW)
      [] OTHER -> [m EXCEPT !.ret = TRUE]

\* the statements of build in order
EmbedStep(m, k, X) ==
    CASE k = 1 -> IF X[3] # 1
                  THEN Raise(m, "AssertionError: X must be a *column* of indices!")
                  ELSE m
      [] k = 2 -> Resolve(_make_prior(m, m.layer.pW, m.layer.n_categories),
                          "pW")
      [] k = 3 -> Resolve(_make_posterior(m, m.layer.qW,
                                          m.layer.n_categories), "qW")
      [] k = 4 -> _sample_W(m, m.layer.qW, X[1])
      [] k = 5 -> Emit([m EXCEPT !.net = "gather"], "output", "gather", 0)
      [] k = 6 -> AddKL(m, m.layer.qW, m.layer.pW)
      [] OTHER -> [m EXCEPT !.ret = TRUE]

EmbedLast == 7

RECURSIVE EmbedRun(_, _, _)
EmbedRun(m0, k, X) ==
    Only({IF ~Ok(m) \/ k > EmbedLast THEN m
          ELSE EmbedRun(EmbedStep(m, k, X), k + 1, X) : m \in {m0}})

EmbedVariational_build(m, X) == EmbedRun(m, 1, X)

----------------------------------------------------------------------------
(* layers.py: SampleLayer.__call__ *)

\* the machine an operation starts with
Machine(l, s, n) ==
    [layer |-> l, seed |-> s, nid |-> n, log |-> <<>>, KL |-> <<>>,
     err |-> "none", net |-> "none", ret |-> FALSE]

\* mutation: the assertion only asks for rank 3 or more
SampleLayer_call_MinRank(m, X) ==
    IF Len(X) < 3
    THEN Raise(m, "AssertionError: rank")
    ELSE IF m.layer.cls = "Embed" THEN EmbedVariational_build(m, X)
                                  ELSE DenseVariational_build(m, X)

SampleLayer_call(m, X) ==
    IF Len(X) # 3
    THEN Raise(m, "AssertionError: rank")
    ELSE IF m.layer.cls = "Embed" THEN EmbedVariational_build(m, X)
                                  ELSE DenseVariational_build(m, X)

\* a whole forward evaluation of layer l from seed state s
Evaluate(l, s, n, X) == SampleLayer_call(Machine(l, s, n), X)

----------------------------------------------------------------------------
(* layers.py: constructors *)

Slots == <<"pW", "qW", "pb", "qb">>

\* no layer object exists
NoLayer ==
    [cls |-> "none", output_dim |-> 0, n_categories |-> 0, full |-> FALSE,
     use_bias |-> FALSE, pW |-> NoDist, qW |-> NoDist, pb |-> NoDist,
     qb |-> NoDist]

\* DenseVariational.__init__ (reg only scales initial values and is left out)
DenseVariational_init(O, full, use_bias, prior_W, prior_b, post_W, post_b) ==
    [cls |-> "Dense", output_dim |-> O, n_categories |-> 0,
     full |-> full, use_bias |-> use_bias, pW |-> prior_W, qW |-> post_W,
     pb |-> prior_b, qb |-> post_b]

\* EmbedVariational.__init__: the assertion comes before any assignment.
\* The object has no use_bias, pb or qb attribute; build never reads them.
EmbedVariational_init(output_dim, n_categories, full, prior_W, post_W) ==
    IF n_categories >= 2
    THEN [err |-> "none",
          obj |-> [cls |-> "Embed", output_dim |-> output_dim,
                   n_categories |-> n_categories, full |-> full,
                   use_bias |-> FALSE, pW |-> prior_W, qW |-> post_W,
                   pb |-> NoDist, qb |-> NoDist]]
    ELSE [err |-> "AssertionError: Need 2 or more categories for embedding!",
          obj |-> NoLayer]

----------------------------------------------------------------------------
(* Inputs the caller chooses *)

Kinds == {"Normal", "Gaussian"}

\* mean shapes of the distributions a caller hands to the weight slots
SuppliedWDims == {<<1, 1>>, <<2, 1>>, <<1>>}
\* and to the bias slots
SuppliedBDims == {<<1>>, <<1, 1>>}

Absent == <<"None", <<>>>>
SuppliedW == {Absent} \cup (Kinds \X SuppliedWDims)
SuppliedB == {Absent} \cup ({"Normal"} \X SuppliedBDims)

\* the object a caller's choice denotes; supplied objects are numbered by
\* the slot they are handed to
Supplied(c, id) ==
    IF c = Absent THEN NoDist
    ELSE IF c[1] = "Normal" THEN Normal(c[2], "caller", <<>>, id)
                            ELSE Gaussian(c[2], "caller", <<>>, id)

\* shapes of the input tensor X: rank 3 is (n_samples, batch, input_dim);
\* the batch size plays no part in the layer logic and is fixed
Inputs ==
    {<<n, 1, d>> : n \in 1..MaxSamples, d \in 1..MaxDim}
    \cup {<<1, d>> : d \in 1..MaxDim} \cup {<<1, 1, 1, 1>>}

NoOp == [op |-> "none", X |-> <<>>, n_categories |-> 0, input_dim |-> 0,
         q |-> NoDist, p |-> NoDist]

Snapshot == [layer |-> layer, seed |-> seed, nid |-> nid]

\* what an operation leaves behind for inspection
ResultOf(m, d) ==
    [err |-> m.err, ret |-> m.ret, KL |-> m.KL, net |-> m.net, log |-> m.log,
     d |-> d]

----------------------------------------------------------------------------
(* The layer as a state machine *)

Init ==
    /\ layer = NoLayer
    /\ seed \in 0..MaxSeed0
    /\ nid = Len(Slots) + 1
    /\ last = NoOp
    /\ start = [layer |-> NoLayer, seed |-> seed, nid |-> nid]
    /\ result = ResultOf(Machine(NoLayer, seed, nid), NoDist)
    /\ ncalls = 0

NewDense ==
    /\ layer.cls = "none"
    /\ \E output_dim \in 1..MaxDim, full \in BOOLEAN, use_bias \in BOOLEAN,
          cpW \in SuppliedW, cqW \in SuppliedW,
          cpb \in SuppliedB, cqb \in SuppliedB :
          /\ layer' = DenseVariational_init(output_dim, full, use_bias,
                          Supplied(cpW, 1), Supplied(cpb, 3),
                          Supplied(cqW, 2), Supplied(cqb, 4))
          /\ last' = [NoOp EXCEPT !.op = "NewDense"]
          /\ result' = ResultOf(Machine(layer', seed, nid), NoDist)
    /\ start' = Snapshot
    /\ UNCHANGED <<seed, nid, ncalls>>

NewEmbed ==
    /\ layer.cls = "none"
    /\ \E output_dim \in 1..MaxDim, n_categories \in 1..MaxCategories,
          full \in BOOLEAN, cpW \in SuppliedW, cqW \in SuppliedW :
          LET r == EmbedVariational_init(output_dim, n_categories, full,
                       Supplied(cpW, 1), Supplied(cqW, 2))
          IN /\ layer' = r.obj
             /\ last' = [NoOp EXCEPT !.op = "NewEmbed",
                                     !.n_categories = n_categories]
             /\ result' = ResultOf(Raise(Machine(r.obj, seed, nid), r.err),
                                   NoDist)
    /\ start' = Snapshot
    /\ UNCHANGED <<seed, nid, ncalls>>

\* layer(X)
Call ==
    /\ layer.cls # "none"
    /\ ncalls < MaxCalls
    /\ \E X \in Inputs :
          LET m == Evaluate(layer, seed, nid, X)
          IN /\ layer' = m.layer
             /\ seed' = m.seed
             /\ nid' = m.nid
             /\ last' = [NoOp EXCEPT !.op = "Call", !.X = X]
             /\ result' = ResultOf(m, NoDist)
    /\ start' = Snapshot
    /\ ncalls' = ncalls + 1

Next == NewDense \/ NewEmbed \/ Call

Spec == Init /\ [][Next]_vars

----------------------------------------------------------------------------
(* The functions of the two modules called on their own *)

\* distribution objects handed to kl_qp and sample()
APIDists == {Supplied(c, i) : c \in Kinds \X SuppliedWDims, i \in {1, 2}}

InitAPI ==
    /\ \E output_dim \in 1..MaxDim, full \in BOOLEAN, use_bias \in BOOLEAN :
          layer = DenseVariational_init(output_dim, full, use_bias, NoDist,
                                        NoDist, NoDist, NoDist)
    /\ seed \in 0..MaxSeed0
    /\ nid = Len(Slots) + 1
    /\ last = NoOp
    /\ start = [layer |-> layer, seed |-> seed, nid |-> nid]
    /\ result = ResultOf(Machine(layer, seed, nid), NoDist)
    /\ ncalls = 0

\* layer._make_posterior(post_W, input_dim); input_dim 0 is the default None
MakePosteriorCall ==
    /\ ncalls < MaxCalls
    /\ \E c \in SuppliedW \cup SuppliedB, input_dim \in 0..MaxDim :
          LET r == _make_posterior(Machine(layer, seed, nid), Supplied(c, 2),
                                   input_dim)
          IN /\ seed' = r.m.seed
             /\ nid' = r.m.nid
             /\ last' = [NoOp EXCEPT !.op = "_make_posterior",
                                     !.input_dim = input_dim,
                                     !.q = Supplied(c, 2)]
             /\ result' = ResultOf(r.m, r.d)
    /\ start' = Snapshot
    /\ ncalls' = ncalls + 1
    /\ UNCHANGED layer

\* kl_qp(q, p)
KLCall ==
    /\ ncalls < MaxCalls
    /\ \E q \in APIDists, p \in APIDists :
          LET m == AddKL(Machine(layer, seed, nid), q, p)
          IN /\ last' = [NoOp EXCEPT !.op = "kl_qp", !.q = q, !.p = p]
             /\ result' = ResultOf([m EXCEPT !.ret = Ok(m)], NoDist)
    /\ start' = Snapshot
    /\ ncalls' = ncalls + 1
    /\ UNCHANGED <<layer, seed, nid>>

\* dist.sample()
SampleCall ==
    /\ ncalls < MaxCalls
    /\ \E d \in APIDists :
          LET m0 == Machine(layer, seed, nid)
              m  == IF d.kind = "Normal" THEN Normal_sample(m0, d)
                                         ELSE Gaussian_sample(m0, d)
          IN /\ seed' = m.seed
             /\ last' = [NoOp EXCEPT !.op = "sample", !.q = d]
             /\ result' = ResultOf([m EXCEPT !.ret = TRUE], NoDist)
    /\ start' = Snapshot
    /\ ncalls' = ncalls + 1
    /\ UNCHANGED <<layer, nid>>

NextAPI == MakePosteriorCall \/ KLCall \/ SampleCall

SpecAPI == InitAPI /\ [][NextAPI]_vars

----------------------------------------------------------------------------
(* Vocabulary of the properties *)

IsCall == last.op = "Call"
IsDenseCall == IsCall /\ start.layer.cls = "Dense"
IsEmbedCall == IsCall /\ start.layer.cls = "Embed"
Rank3 == Len(last.X) = 3

\* the operation left the layer, the seed source and the object count alone
Untouched ==
    /\ layer = start.layer
    /\ seed = start.seed
    /\ nid = start.nid

\* positions of the log holding an event of kind e
Events(e) == {i \in DOMAIN result.log : result.log[i].ev = e}
SeedsFor(use) ==
    {i \in Events("seed") : result.log[i].slot = use}

\* nothing was constructed, computed or drawn
NothingDone == result.log = <<>> /\ result.KL = <<>> /\ ~result.ret

ShapeErrors == {"AssertionError: Prior inconsistent dimension!",
                "AssertionError: Posterior inconsistent dimension!"}

\* the shapes build expects for the weights and the bias of layer l on X
WDim(l, X) == <<IF l.cls = "Embed" THEN l.n_categories ELSE X[3],
                l.output_dim>>
BDim(l) == <<l.output_dim>>

\* a slot the caller filled with a distribution of another shape than dim
Mismatched(d, dim) == Truthy(d) /\ d.origin = "caller" /\ d.dim # dim

\* the classes the weight pair of layer l has once it is resolved on a
\* rank-3 input
QKind(l) == IF Truthy(l.qW) THEN l.qW.kind
            ELSE IF l.full THEN "Gaussian" ELSE "Normal"
PKind(l) == IF Truthy(l.pW) THEN l.pW.kind ELSE "Normal"

Supported == {<<"Normal", "Normal">>, <<"Gaussian", "Normal">>,
              <<"Gaussian", "Gaussian">>}

\* a forward evaluation nothing is wrong with: rank-3 input, a column of
\* indices for an embedding, every filled slot of the expected shape and
\* a divergence rule for each pair
ValidCall ==
    LET l == start.layer
        X == last.X
    IN /\ IsCall /\ Rank3
       /\ l.cls = "Embed" => X[3] = 1
       /\ Truthy(l.pW) => l.pW.dim = WDim(l, X)
       /\ Truthy(l.qW) => l.qW.dim = WDim(l, X)
       /\ <<QKind(l), PKind(l)>> \in Supported
       /\ Truthy(l.pb) => l.pb.dim = BDim(l) /\ l.pb.kind = "Normal"
       /\ Truthy(l.qb) => l.qb.dim = BDim(l)

----------------------------------------------------------------------------
(* C2, C8: the functions on their own (SpecAPI) *)

\* C2: kl_qp returns a value for the pairs (Normal, Normal),
\* (Gaussian, Normal) and (Gaussian, Gaussian), computed by the rule of
\* that pair from the two arguments, and for (q = Normal, p = Gaussian) it
\* raises the no-rule error and returns nothing, whatever q and p hold.
C2_KLDispatch ==
    last.op = "kl_qp" =>
        IF last.q.kind = "Normal" /\ last.p.kind = "Gaussian"
        THEN result.err = "NotImplementedError" /\ ~result.ret
             /\ result.KL = <<>>
        ELSE /\ result.err = "none" /\ result.ret
             /\ result.KL = <<[rule |-> <<last.q.kind, last.p.kind>>,
                               q |-> last.q, p |-> last.p]>>

C2_Witness ==
    /\ last.op = "kl_qp"
    /\ last.q.kind = "Normal" /\ last.p.kind = "Gaussian"
    /\ last.q.dim = last.p.dim
    /\ result.err = "NotImplementedError"

----------------------------------------------------------------------------
(* C9, C10, C3: rejected evaluations (Spec) *)

\* C9: a call of a sample layer (dense or embedding) on an input whose rank
\* is not 3 raises the rank assertion before build runs: the slots, the
\* seed source and the object count are as before, nothing was constructed,
\* no KL was computed and nothing is returned.
C9_InvalidRankRejected ==
    (IsCall /\ ~Rank3) =>
        /\ result.err = "AssertionError: rank"
        /\ Untouched
        /\ NothingDone

C9_Witness ==
    /\ IsCall /\ ~Rank3
    /\ ~Truthy(start.layer.pW) /\ ~Truthy(start.layer.qW)
    /\ result.err = "AssertionError: rank"

\* C10: EmbedVariational with n_categories < 2 fails in the constructor and
\* no layer exists afterwards; an embedding layer called on a rank-3 input
\* whose last dimension is not 1 raises before any prior or posterior is
\* resolved, any sample drawn or any seed consumed, pW and qW being as
\* they were.
C10_EmbedRejectsInvalid ==
    /\ (last.op = "NewEmbed" /\ last.n_categories < 2) =>
          /\ result.err =
                "AssertionError: Need 2 or more categories for embedding!"
          /\ layer = NoLayer
          /\ Untouched
    /\ (IsEmbedCall /\ Rank3 /\ last.X[3] # 1) =>
          /\ result.err = "AssertionError: X must be a *column* of indices!"
          /\ Untouched
          /\ NothingDone

C10_Witness ==
    /\ IsEmbedCall /\ Rank3 /\ last.X[3] # 1
    /\ ~Truthy(start.layer.pW) /\ ~Truthy(start.layer.qW)
    /\ result.err = "AssertionError: X must be a *column* of indices!"

\* C3 as stated: whichever supplied distribution (prior_W, post_W, prior_b,
\* post_b) has a mean of the wrong shape, the evaluation fails with the
\* shape error with nothing constructed, no field changed, no KL computed
\* and no seed consumed.
C3_Original ==
    LET l == start.layer
    IN (IsDenseCall /\ Rank3
        /\ (\/ Mismatched(l.pW, WDim(l, last.X))
            \/ Mismatched(l.qW, WDim(l, last.X))
            \/ Mismatched(l.pb, BDim(l))
            \/ Mismatched(l.qb, BDim(l)))) =>
           /\ result.err \in ShapeErrors
           /\ Untouched
           /\ NothingDone

\* C3 amended: when the supplied prior_W or post_W has a mean of the wrong
\* shape, the evaluation fails with the shape error before any KL is
\* computed, any posterior constructed, any sample drawn or any seed
\* consumed; qW, pb and qb are as before, and pW is as before unless it was
\* absent and post_W is the one rejected, in which case pW holds the prior
\* norm_prior has just built.  A wrong prior_W leaves everything untouched.
C3_WeightShapeRejected ==
    LET l == start.layer
        badP == Mismatched(l.pW, WDim(l, last.X))
        badQ == Mismatched(l.qW, WDim(l, last.X))
    IN (IsDenseCall /\ Rank3 /\ (badP \/ badQ)) =>
           /\ result.err \in ShapeErrors
           /\ ~result.ret /\ result.KL = <<>>
           /\ seed = start.seed
           /\ Events("seed") = {} /\ Events("kl") = {}
           /\ Events("sample") = {} /\ Events("stack") = {}
           /\ layer.qW = l.qW /\ layer.pb = l.pb /\ layer.qb = l.qb
           /\ \/ layer.pW = l.pW /\ Untouched /\ Events("factory") = {}
              \/ /\ ~badP /\ ~Truthy(l.pW)
                 /\ layer.pW = Normal(WDim(l, last.X), "norm_prior", <<>>,
                                      start.nid)
           /\ badP => (Untouched /\ result.log = <<>>
                       /\ result.err =
                            "AssertionError: Prior inconsistent dimension!")

C3_Witness ==
    /\ IsDenseCall /\ Rank3
    /\ ~Truthy(start.layer.pW)
    /\ Mismatched(start.layer.qW, WDim(start.layer, last.X))
    /\ result.err = "AssertionError: Posterior inconsistent dimension!"
    /\ layer.pW.origin = "norm_prior"

----------------------------------------------------------------------------
(* C1, C4, C5, C6, C7: what a forward evaluation yields (Spec) *)

\* the slots build resolves for layer l
UsedSlots(l) ==
    {"pW", "qW"} \cup
    (IF l.cls = "Dense" /\ l.use_bias THEN {"pb", "qb"} ELSE {})

\* C1 as stated: a dense evaluation and the evaluation from the same layer
\* state and the same seed state with any other n_samples both return a KL,
\* and the two KLs are computed from identical distributions.
C1_Original ==
    (ValidCall /\ start.layer.cls = "Dense") =>
        \A n \in 1..MaxSamples :
            LET r == Evaluate(start.layer, start.seed, start.nid,
                              <<n, last.X[2], last.X[3]>>)
            IN /\ result.ret /\ r.ret
               /\ result.KL # <<>>
               /\ r.KL = result.KL

\* C4 as stated: after a forward evaluation every slot the layer uses is
\* filled, a slot that was filled before the evaluation holds the same
\* object, and a factory ran only for the slots that were empty.
C4_Original ==
    ValidCall =>
        LET l == start.layer
        IN /\ \A s \in UsedSlots(l) :
                 /\ Truthy(layer[s])
                 /\ Truthy(l[s]) => layer[s] = l[s]
           /\ Cardinality(Events("factory")) =
                 Cardinality({s \in UsedSlots(l) : ~Truthy(l[s])})

\* C5 as stated: an evaluation with n_samples members of a layer with bias
\* consumes n_samples seeds for the weight samples and n_samples for the
\* bias samples, one per sample() call.
C5_Original ==
    (ValidCall /\ start.layer.cls = "Dense" /\ start.layer.use_bias) =>
        /\ Cardinality(SeedsFor("sample")) = 2 * last.X[1]
        /\ Cardinality(Events("sample")) = 2 * last.X[1]

\* C6 as stated: a forward evaluation reaches its output having resolved
\* no distribution after a KL was computed and computed no KL after a
\* sample was drawn.
C6_Original ==
    ValidCall =>
        /\ result.ret /\ result.net # "none"
        /\ \A i, j \in DOMAIN result.log :
              i < j =>
                /\ ~(result.log[i].ev = "kl" /\ result.log[j].ev = "resolve")
                /\ ~(result.log[i].ev \in {"sample", "stack"}
                     /\ result.log[j].ev = "kl")

\* C7 as stated: a dense layer made with use_bias=False and no bias
\* distributions evaluates without error, returns the KL of (qW, pW)
\* alone, leaves pb and qb empty and adds no bias.
C7_Original ==
    (ValidCall /\ start.layer.cls = "Dense" /\ ~start.layer.use_bias
     /\ ~Truthy(start.layer.pb) /\ ~Truthy(start.layer.qb)) =>
        /\ result.err = "none" /\ result.ret
        /\ result.KL = <<[rule |-> <<layer.qW.kind, layer.pW.kind>>,
                          q |-> layer.qW, p |-> layer.pW]>>
        /\ layer.pb = NoDist /\ layer.qb = NoDist
        /\ result.net = "matmul"

----------------------------------------------------------------------------
(* Tensors: a shape and a value for every index (indices start at 0) *)

Idx(shape) ==
    IF Len(shape) = 0 THEN {<<>>}
    ELSE IF Len(shape) = 1 THEN {<<a>> : a \in 0..(shape[1] - 1)}
    ELSE IF Len(shape) = 2
    THEN (0..(shape[1] - 1)) \X (0..(shape[2] - 1))
    ELSE (0..(shape[1] - 1)) \X (0..(shape[2] - 1)) \X (0..(shape[3] - 1))

\* the number of entries of a tensor of a given shape
Size(shape) ==
    IF Len(shape) = 0 THEN 1
    ELSE IF Len(shape) = 1 THEN shape[1]
    ELSE IF Len(shape) = 2 THEN shape[1] * shape[2]
    ELSE shape[1] * shape[2] * shape[3]

\* the index of the k-th entry in row-major order, k counted from 0
Unflatten(shape, k) ==
    IF Len(shape) = 0 THEN <<>>
    ELSE IF Len(shape) = 1 THEN <<k>>
    ELSE IF Len(shape) = 2 THEN <<k \div shape[2], k % shape[2]>>
    ELSE <<k \div (shape[2] * shape[3]), (k \div shape[3]) % shape[2],
           k % shape[3]>>

\* a function with every value computed
Computed(f) == f @@ <<>>

Tensor(shape, f(_)) ==
    [shape |-> shape, val |-> Computed([i \in Idx(shape) |-> f(i)])]

\* tf.transpose(t) of a matrix
tf_transpose(t) ==
    LET at(i) == t.val[<<i[2], i[1]>>]
    IN Tensor(<<t.shape[2], t.shape[1]>>, at)

\* tf.transpose(t, perm) of a rank-3 tensor: axis a of the result is axis
\* perm[a] of t (perm given with axes counted from 1)
tf_transpose3(t, perm) ==
    LET src(i) == [a \in 1..3 |->
                      i[CHOOSE b \in 1..3 : perm[b] = a]]
        at(i) == t.val[src(i)]
    IN Tensor(<<t.shape[perm[1]], t.shape[perm[2]], t.shape[perm[3]]>>, at)

\* tf.expand_dims(t, 2) of a matrix
tf_expand_dims2(t) ==
    LET at(i) == t.val[<<i[1], i[2]>>]
    IN Tensor(<<t.shape[1], t.shape[2], 1>>, at)

\* t[:, :, 0]
SliceLast0(t) ==
    LET at(i) == t.val[<<i[1], i[2], 0>>]
    IN Tensor(<<t.shape[1], t.shape[2]>>, at)

----------------------------------------------------------------------------
(* distributions.py: Gaussian.transform_w / itransform_w *)

\* mutation: the transpose is left out
transform_w_NoTranspose(w) == tf_expand_dims2(w)

\* transform_w(w): [d_i, d_o] -> [d_o, d_i, 1]
transform_w(w) == tf_expand_dims2(tf_transpose(w))

\* itransform_w(wt): [d_o, d_i, 1] -> [d_i, d_o]
itransform_w(wt) == tf_transpose(SliceLast0(wt))

\* weight matrices of every shape (I, O)
Matrices ==
    UNION {[shape : {<<I, O>>}, val : [Idx(<<I, O>>) -> 0..MaxVal]] :
           I \in 1..MaxDim, O \in 1..MaxDim}

----------------------------------------------------------------------------
(* Exact numbers: a rational <<numerator, denominator>> in lowest terms,
   and a value r + l2 * log(2) + lf * log(1e-15) with rational r, l2, lf.
   log(2) and log(1e-15) are irrational and independent over the
   rationals, so such a value is 0 exactly when r, l2 and lf are all 0. *)

RECURSIVE GCD(_, _)
GCD(a, b) == IF b = 0 THEN a ELSE GCD(b, a % b)

Abs(x) == IF x < 0 THEN -x ELSE x

Rat(n, d) ==
    LET sn == IF d < 0 THEN -n ELSE n
        g == GCD(Abs(n), Abs(d))
    IN <<sn \div g, Abs(d) \div g>>

R(n) == <<n, 1>>
RAdd(a, b) == Rat(a[1] * b[2] + b[1] * a[2], a[2] * b[2])
RSub(a, b) == Rat(a[1] * b[2] - b[1] * a[2], a[2] * b[2])
RMul(a, b) == Rat(a[1] * b[1], a[2] * b[2])
RDiv(a, b) == Rat(a[1] * b[2], a[2] * b[1])

\* the sum of entries lo..hi (row-major) of f, a function on Idx(shape)
RECURSIVE RSumRange(_, _, _, _)
RSumRange(shape, f, lo, hi) ==
    IF hi < lo THEN R(0)
    ELSE IF lo = hi THEN f[Unflatten(shape, lo)]
    ELSE RAdd(RSumRange(shape, f, lo, (lo + hi) \div 2),
              RSumRange(shape, f, ((lo + hi) \div 2) + 1, hi))

\* tf.reduce_sum of f, a function on Idx(shape)
RSum(shape, f) ==
    Only({RSumRange(shape, g, 0, Size(shape) - 1) : g \in {Computed(f)}})

V(r) == [r |-> r, l2 |-> R(0), lf |-> R(0)]
VAdd(a, b) == [r |-> RAdd(a.r, b.r), l2 |-> RAdd(a.l2, b.l2), lf |-> RAdd(a.lf, b.lf)]
VSub(a, b) == [r |-> RSub(a.r, b.r), l2 |-> RSub(a.l2, b.l2), lf |-> RSub(a.lf, b.lf)]
VScale(c, a) == [r |-> RMul(c, a.r), l2 |-> RMul(c, a.l2), lf |-> RMul(c, a.lf)]

RECURSIVE VSumRange(_, _, _, _)
VSumRange(shape, f, lo, hi) ==
    IF hi < lo THEN V(R(0))
    ELSE IF lo = hi THEN f[Unflatten(shape, lo)]
    ELSE VAdd(VSumRange(shape, f, lo, (lo + hi) \div 2),
              VSumRange(shape, f, ((lo + hi) \div 2) + 1, hi))

VSum(shape, f) ==
    Only({VSumRange(shape, g, 0, Size(shape) - 1) : g \in {Computed(f)}})

\* the exponent k of a power of two 2^k
RECURSIVE Log2(_)
Log2(x) ==
    CASE x = R(1) -> 0
      [] x[2] = 1 /\ x[1] > 1 /\ x[1] % 2 = 0 -> Log2(<<x[1] \div 2, 1>>) + 1
      [] x[1] = 1 /\ x[2] > 1 /\ x[2] % 2 = 0 -> Log2(<<1, x[2] \div 2>>) - 1

\* tf.log(x) of a power of two
tf_log(x) == [r |-> R(0), l2 |-> R(Log2(x)), lf |-> R(0)]

\* tf.log(tf.maximum(x, 1e-15)); a positive rational whose denominator fits
\* a machine integer is above 1e-15, everything else is raised to the floor
tf_log_maximum(x) ==
    IF x[1] <= 0 THEN [r |-> R(0), l2 |-> R(0), lf |-> R(1)] ELSE tf_log(x)

\* an entry of a tensor broadcast against index i (a scalar has shape <<>>)
At(t, i) == IF t.shape = <<>> THEN t.val[<<>>] ELSE t.val[i]

----------------------------------------------------------------------------
(* distributions.py: kl_qp(Normal, Normal) on the parameter values *)

NormalOf(mu, var) == [kind |-> "Normal", mu |-> mu, var |-> var]

\* mutation: the "- 1." of the summand is left out
kl_qp_Normal_Normal_NoMinusOne(q, p) ==
    LET KL(i) ==
            VAdd(VSub(tf_log(At(p.var, i)), tf_log(At(q.var, i))),
                 V(RAdd(RDiv(At(q.var, i), At(p.var, i)),
                        RDiv(RMul(RSub(At(q.mu, i), At(p.mu, i)),
                                  RSub(At(q.mu, i), At(p.mu, i))),
                             At(p.var, i)))))
    IN VScale(<<1, 2>>, VSum(q.mu.shape, [i \in Idx(q.mu.shape) |-> KL(i)]))

\* KL = reduce_sum(0.5 * (log(p.var) - log(q.var) + q.var / p.var - 1.
\*                        + (q.mu - p.mu)**2 / p.var))
kl_qp_Normal_Normal(q, p) ==
    LET KL(i) ==
            VAdd(VSub(tf_log(At(p.var, i)), tf_log(At(q.var, i))),
                 V(RAdd(RSub(RDiv(At(q.var, i), At(p.var, i)), R(1)),
                        RDiv(RMul(RSub(At(q.mu, i), At(p.mu, i)),
                                  RSub(At(q.mu, i), At(p.mu, i))),
                             At(p.var, i)))))
    IN VScale(<<1, 2>>, VSum(q.mu.shape, [i \in Idx(q.mu.shape) |-> KL(i)]))

----------------------------------------------------------------------------
(* distributions.py: kl_qp(Gaussian, Gaussian) on the parameter values *)

GaussianOf(mu, L) == [kind |-> "Gaussian", mu |-> mu, L |-> L]

\* a - b, entry by entry
tf_subtract(a, b) ==
    LET at(i) == RSub(a.val[i], b.val[i])
    IN Tensor(a.shape, at)

\* tf.matmul(A, B, transpose_b=True) of batches of matrices
tf_matmul_bt(A, B) ==
    LET K == <<A.shape[3]>>
        at(i) == RSum(K, [k \in Idx(K) |-> RMul(A.val[<<i[1], i[2], k[1]>>], B.val[<<i[1], i[3], k[1]>>])])
    IN Tensor(<<A.shape[1], A.shape[2], B.shape[2]>>, at)

\* rows 0..r of the solution y of L[o] y = b[o][:, k] (forward substitution)
RECURSIVE ForwardSub(_, _, _, _, _)
ForwardSub(L, b, o, k, r) ==
    LET C == <<r>>
        row(y) == RDiv(RSub(b.val[<<o, r, k>>],
                            RSum(C, [c \in Idx(C) |-> RMul(L.val[<<o, r, c[1]>>], y[c[1] + 1])])),
                       L.val[<<o, r, r>>])
    IN IF r < 0 THEN <<>>
       ELSE Only({Append(y, row(y)) : y \in {ForwardSub(L, b, o, k, r - 1)}})

\* rows r..(I - 1) of the solution x of L[o]^T x = y (back substitution)
RECURSIVE BackSub(_, _, _, _)
BackSub(L, y, o, r) ==
    LET C == <<L.shape[2] - 1 - r>>
        row(x) == RDiv(RSub(y[r + 1],
                            RSum(C, [c \in Idx(C) |-> RMul(L.val[<<o, c[1] + r + 1, r>>], x[c[1] + 1])])),
                       L.val[<<o, r, r>>])
    IN IF r > L.shape[2] - 1 THEN <<>>
       ELSE Only({<<row(x)>> \o x : x \in {BackSub(L, y, o, r + 1)}})

\* column k of the solution of (L[o] L[o]^T) x = b[o]
SolveColumn(L, b, o, k) ==
    Only({BackSub(L, y, o, 0) : y \in {ForwardSub(L, b, o, k, L.shape[2] - 1)}})

\* tf.cholesky_solve(L, b): the solution of (L L^T) x = b, batch by batch
tf_cholesky_solve(L, b) ==
    LET at(i) == SolveColumn(L, b, i[1], i[3])[i[2] + 1]
    IN Tensor(b.shape, at)

\* tf.reduce_sum(tf.trace(A))
SumTrace(A) ==
    LET S == <<A.shape[1], A.shape[2]>>
    IN RSum(S, [i \in Idx(S) |-> A.val[<<i[1], i[2], i[2]>>]])

\* tf.reduce_sum(a * b)
SumProduct(a, b) == RSum(a.shape, [i \in Idx(a.shape) |-> RMul(a.val[i], b.val[i])])

\* logdet = 2. * reduce_sum(log(maximum(matrix_diag_part(L), 1e-15)))
_chollogdet(L) ==
    LET S == <<L.shape[1], L.shape[2]>>
    IN VScale(R(2), VSum(S, [i \in Idx(S) |-> tf_log_maximum(L.val[<<i[1], i[2], i[2]>>])]))

\* KL = 0.5 * (tr + dist + logdet - n * D)
kl_qp_Gaussian_Gaussian(q, p) ==
    LET D == q.mu.shape[1]
        n == q.mu.shape[2]
        KL(tr, dist, logdet) ==
            VScale(<<1, 2>>, VAdd(V(RSub(RAdd(tr, dist), R(n * D))), logdet))
    IN Only({KL(SumTrace(qCipC), SumProduct(md, solved), logdet) :
                qCipC \in {tf_cholesky_solve(p.L, tf_matmul_bt(q.L, q.L))},
                solved \in {Only({tf_cholesky_solve(p.L, md) : md \in {transform_w(tf_subtract(p.mu, q.mu))}})},
                md \in {transform_w(tf_subtract(p.mu, q.mu))},
                logdet \in {VSub(_chollogdet(p.L), _chollogdet(q.L))}})

----------------------------------------------------------------------------
(* distributions.py: the Cholesky factor gaus_posterior builds.  An entry
   of a built tensor records which trainable entries l[k, o] were written
   to it (src) and the value it starts with (init). *)

\* the number of pairs in the lower triangle of an I x I matrix
TrilCount(I) == (I * (I + 1)) \div 2

\* u, v = np.tril_indices(I): the pairs <<r, c>>, c <= r, in row-major order
np_tril_indices(I) ==
    [k \in 0..(TrilCount(I) - 1) |->
        CHOOSE rc \in (0..(I - 1)) \X (0..(I - 1)) :
            rc[2] <= rc[1] /\ TrilCount(rc[1]) + rc[2] = k]

\* mutation: the row and the column are exchanged
ScatterIndices_Swapped(I) ==
    [k \in DOMAIN np_tril_indices(I) |->
        np_tril_indices(I)[k][2] * I + np_tril_indices(I)[k][1]]

\* indices = (u * I + v)[:, np.newaxis]
ScatterIndices(I) ==
    [k \in DOMAIN np_tril_indices(I) |->
        np_tril_indices(I)[k][1] * I + np_tril_indices(I)[k][2]]

\* l0 = np.tile(np.eye(I), [O, 1, 1])[:, u, v].T * tf.random_gamma(...),
\* l = tf.Variable(l0): shape (K, O), entry [k, o] is trainable entry <<k, o>>
TrilVariable(I, O, gamma) ==
    LET eye(rc) == IF rc[1] = rc[2] THEN R(1) ELSE R(0)
        at(i) == [src |-> {i}, init |-> RMul(eye(np_tril_indices(I)[i[1]]), gamma.val[i])]
    IN Tensor(<<TrilCount(I), O>>, at)

\* tf.scatter_nd(indices, l, shape): row indices[k] of the result receives
\* row k of l; rows written twice add up, rows never written hold 0
tf_scatter_nd(indices, l, shape) ==
    LET rows(j) == {k \in DOMAIN indices : indices[k] = j}
        K == <<l.shape[1]>>
        at(i) == [src |-> UNION {l.val[<<k, i[2]>>].src : k \in rows(i[1])},
                  init |-> RSum(K, [k \in Idx(K) |-> IF k[1] \in rows(i[1]) THEN l.val[<<k[1], i[2]>>].init ELSE R(0)])]
    IN Tensor(shape, at)

\* tf.reshape(Lt, (O, I, I)) of a matrix of shape (O, I * I)
tf_reshape3(Lt, shape) ==
    LET at(i) == Lt.val[<<i[1], i[2] * shape[3] + i[3]>>]
    IN Tensor(shape, at)

\* L of gaus_posterior(dim = (I, O)) for one draw of the gamma noise
gaus_posterior_L(I, O, gamma) ==
    LET l == TrilVariable(I, O, gamma)
        Lt == tf_transpose(tf_scatter_nd(ScatterIndices(I), l, <<I * I, O>>))
    IN tf_reshape3(Lt, <<O, I, I>>)

\* draws of tf.random_gamma of a given shape (strictly positive)
GammaDraws(shape) ==
    LET one(i) == R(1)
        two(i) == R(2)
        alt(i) == R(1 + ((i[1] + i[2]) % 2))
    IN {Tensor(shape, one), Tensor(shape, two), Tensor(shape, alt)}

----------------------------------------------------------------------------
(* layers.py: the gather of EmbedVariational.build *)

\* tf.gather(params, ids): entry [b, ...] of the result is params[ids[b], ...]
tf_gather(params, ids) ==
    LET at(i) == params.val[<<ids[i[1] + 1], i[2], i[3]>>]
    IN Tensor(<<Len(ids), params.shape[2], params.shape[3]>>, at)

\* X[0, :, 0] of an index input of shape (n_samples, batch, 1)
FirstMemberIds(X) == [b \in 1..X.shape[2] |-> X.val[<<0, b - 1, 0>>]]

\* Wsamples = tf.transpose(samples, [1, 2, 0]);
\* embedding = tf.gather(Wsamples, X[0, :, 0]);
\* Net = tf.transpose(embedding, [2, 0, 1])
EmbedGather(samples, X) ==
    tf_transpose3(tf_gather(tf_transpose3(samples, <<2, 3, 1>>),
                            FirstMemberIds(X)),
                  <<3, 1, 2>>)

\* n_samples weight samples of shape (C, O) stacked, every entry its own
SampleStack(n_samples, C, O) ==
    LET at(i) == i
    IN Tensor(<<n_samples, C, O>>, at)

\* index inputs of a given shape with every index in 0..(C - 1)
IndexInputs(shape, C) == [shape : {shape}, val : [Idx(shape) -> 0..(C - 1)]]

----------------------------------------------------------------------------
(* Parameter values the divergences are called with *)

\* shapes (I, O) of a weight matrix, and the shape (3, 2)
WeightShapes == {<<I, O>> : I \in 1..MaxDim, O \in 1..MaxDim} \cup {<<3, 2>>}

\* means: all 0, all 1, and 0 and 1 alternating
Means(shape) ==
    LET zero(i) == R(0)
        one(i) == R(1)
        alt(i) == R((i[1] + i[2]) % 2)
    IN {Tensor(shape, zero), Tensor(shape, one), Tensor(shape, alt)}

\* variances (strictly positive): all 1, all 1/2, all 2, 2 and 1/2
\* alternating, and the scalar 1 (norm_prior keeps a scalar variance)
Variances(shape) ==
    LET one(i) == R(1)
        half(i) == <<1, 2>>
        two(i) == R(2)
        alt(i) == IF (i[1] + i[2]) % 2 = 0 THEN R(2) ELSE <<1, 2>>
    IN {Tensor(shape, one), Tensor(shape, half), Tensor(shape, two),
        Tensor(shape, alt), Tensor(<<>>, one)}

\* lower-triangular factors of shape (O, I, I) with a non-zero diagonal
CholFactors(shape) ==
    LET s == <<shape[2], shape[1], shape[1]>>
        eye(i) == IF i[2] = i[3] THEN R(1) ELSE R(0)
        half(i) == IF i[2] = i[3] THEN <<1, 2>> ELSE R(0)
        low(i) == IF i[2] = i[3] THEN R(2) ELSE IF i[2] > i[3] THEN R(1) ELSE R(0)
        alt(i) == IF i[2] = i[3] THEN (IF (i[1] + i[2]) % 2 = 0 THEN R(2) ELSE <<1, 2>>)
                  ELSE IF i[2] > i[3] THEN R(-1) ELSE R(0)
        neg(i) == IF i[2] = i[3] THEN (IF i[2] = 0 THEN R(-1) ELSE R(1))
                  ELSE IF i[2] > i[3] THEN R(1) ELSE R(0)
    IN {Tensor(s, eye), Tensor(s, half), Tensor(s, low), Tensor(s, alt), Tensor(s, neg)}

Normals(shape) == {NormalOf(mu, var) : mu \in Means(shape), var \in Variances(shape)}

Gaussians(shape) == {GaussianOf(mu, L) : mu \in Means(shape), L \in CholFactors(shape)}

----------------------------------------------------------------------------
(* The tensor computations called on their own *)

InitNum ==
    /\ layer = NoLayer
    /\ seed = 0
    /\ nid = Len(Slots) + 1
    /\ last = [op |-> "none"]
    /\ start = [layer |-> layer, seed |-> seed, nid |-> nid]
    /\ result = [op |-> "none"]
    /\ ncalls = 0

\* Gaussian.itransform_w(Gaussian.transform_w(w))
TransformCall ==
    /\ ncalls = 0
    /\ \E w \in Matrices :
          /\ last' = [op |-> "transform_w", w |-> w]
          /\ result' = [op |-> "transform_w", wt |-> transform_w(w),
                        back |-> itransform_w(transform_w(w))]
    /\ ncalls' = 1
    /\ UNCHANGED <<layer, seed, nid, start>>

\* kl_qp(q, p) of two Normal objects
KLNormalCall ==
    /\ ncalls = 0
    /\ \E shape \in WeightShapes : \E q \in Normals(shape), p \in Normals(shape) :
          /\ last' = [op |-> "kl_qp", q |-> q, p |-> p]
          /\ result' = [op |-> "kl_qp", KL |-> kl_qp_Normal_Normal(q, p)]
    /\ ncalls' = 1
    /\ UNCHANGED <<layer, seed, nid, start>>

\* kl_qp(q, p) of two Gaussian objects
KLGaussianCall ==
    /\ ncalls = 0
    /\ \E shape \in WeightShapes : \E q \in Gaussians(shape), p \in Gaussians(shape) :
          /\ last' = [op |-> "kl_qp", q |-> q, p |-> p]
          /\ result' = [op |-> "kl_qp", KL |-> kl_qp_Gaussian_Gaussian(q, p)]
    /\ ncalls' = 1
    /\ UNCHANGED <<layer, seed, nid, start>>

\* the factor L of gaus_posterior(dim)
GausPosteriorCall ==
    /\ ncalls = 0
    /\ \E I \in 1..MaxDim, O \in 1..MaxDim : \E gamma \in GammaDraws(<<TrilCount(I), O>>) :
          /\ last' = [op |-> "gaus_posterior", dim |-> <<I, O>>, gamma |-> gamma]
          /\ result' = [op |-> "gaus_posterior", L |-> gaus_posterior_L(I, O, gamma)]
    /\ ncalls' = 1
    /\ UNCHANGED <<layer, seed, nid, start>>

NextNum == TransformCall \/ KLNormalCall \/ KLGaussianCall \/ GausPosteriorCall

SpecNum == InitNum /\ [][NextNum]_vars

----------------------------------------------------------------------------
(* C11: the weight transform and its inverse (SpecNum) *)

\* C11: for a weight matrix w of shape (I, O), transform_w(w) has shape
\* (O, I, 1) with transform_w(w)[o, i, 0] = w[i, o], and itransform_w of it
\* is w again, shape and every entry.
C11_TransformRoundTrip ==
    last.op = "transform_w" =>
        LET w == last.w
            I == w.shape[1]
            O == w.shape[2]
        IN /\ result.wt.shape = <<O, I, 1>>
           /\ \A i \in 0..(I - 1), o \in 0..(O - 1) :
                 result.wt.val[<<o, i, 0>>] = w.val[<<i, o>>]
           /\ result.back = w

C11_Witness ==
    /\ last.op = "transform_w"
    /\ last.w.shape = <<2, 1>>
    /\ last.w.val[<<0, 0>>] # last.w.val[<<1, 0>>]
    /\ result.back = last.w

----------------------------------------------------------------------------
(* C12: the divergence of a distribution from itself (SpecNum) *)

Zero == V(R(0))

SameParameters ==
    /\ last.op = "kl_qp"
    /\ last.q = last.p

\* C12: kl_qp(q, p) is 0 whenever q and p have the same mean and the same
\* variance (two Normal objects) or the same mean and the same Cholesky
\* factor (two Gaussian objects); in particular for Normal objects of
\* shape (3, 2) with mean 0 and variance 1.
C12_KLZeroOnEqual == SameParameters => result.KL = Zero

C12_GaussianReached ==
    /\ SameParameters
    /\ last.q.kind = "Gaussian"
    /\ last.q.mu.shape = <<2, 2>>
    /\ last.q.L.val[<<0, 1, 0>>] # R(0)
    /\ last.q.L.val[<<0, 0, 0>>] = R(2)
    /\ result.KL = Zero

\* the Normal prior and posterior of mean 0 and variance 1 at shape (3, 2)
C12_Witness ==
    /\ SameParameters
    /\ last.q.kind = "Normal"
    /\ last.q.mu.shape = <<3, 2>>
    /\ last.q.var.shape = <<3, 2>>
    /\ \A i \in Idx(<<3, 2>>) : last.q.mu.val[i] = R(0) /\ last.q.var.val[i] = R(1)
    /\ result.KL = Zero

----------------------------------------------------------------------------
(* C13: the layout of the factor gaus_posterior builds (SpecNum) *)

\* C13: for dim = (I, O) the factor L has shape (O, I, I); the trainable
\* entry l[k, o], k the position of the pair (r, c) in the lower-triangle
\* index list (c <= r), is the one entry placed at L[o, r, c]; no position
\* receives two trainable entries; every position with r < c receives none
\* and holds 0; and at initialisation exactly the positions r = c are
\* non-zero.
C13_LowerTriangular ==
    last.op = "gaus_posterior" =>
        LET I == last.dim[1]
            O == last.dim[2]
            L == result.L
            tril == np_tril_indices(I)
        IN /\ L.shape = <<O, I, I>>
           /\ \A k \in DOMAIN tril, o \in 0..(O - 1) :
                 /\ tril[k][2] <= tril[k][1]
                 /\ L.val[<<o, tril[k][1], tril[k][2]>>].src = {<<k, o>>}
           /\ \A i \in Idx(L.shape) : Cardinality(L.val[i].src) <= 1
           /\ \A i \in Idx(L.shape) :
                 i[2] < i[3] => L.val[i].src = {} /\ L.val[i].init = R(0)
           /\ \A i \in Idx(L.shape) : (L.val[i].init # R(0)) <=> (i[2] = i[3])

C13_Witness ==
    /\ last.op = "gaus_posterior"
    /\ last.dim = <<2, 2>>
    /\ result.L.val[<<1, 1, 0>>].src = {<<1, 1>>}
    /\ result.L.val[<<1, 0, 1>>].src = {}
    /\ result.L.val[<<1, 1, 1>>].init = R(2)

----------------------------------------------------------------------------
(* C14: the output of an embedding layer (Spec) *)

\* the output EmbedVariational.build assembles from n_samples weight
\* samples holds, for member s and batch row b, the row X[s, b, 0] of
\* sample s
RowsOfOwnIndex(n_samples, batch, C, O) ==
    \A X \in IndexInputs(<<n_samples, batch, 1>>, C) :
        LET Net == EmbedGather(SampleStack(n_samples, C, O), X)
        IN /\ Net.shape = <<n_samples, batch, O>>
           /\ \A i \in Idx(Net.shape) :
                 Net.val[i] = <<i[1], X.val[<<i[1], i[2], 0>>], i[3]>>

\* C14 as stated: an embedding layer evaluated on an index input of shape
\* (n_samples, batch, 1) returns an output of shape (n_samples, batch, O)
\* in which member s, batch row b holds row X[s, b, 0] of the s-th sampled
\* weight matrix.
C14_Original ==
    (ValidCall /\ IsEmbedCall) =>
        /\ result.err = "none" /\ result.ret
        /\ result.net = "gather"
        /\ RowsOfOwnIndex(last.X[1], last.X[2], start.layer.n_categories,
                          start.layer.output_dim)

====
